---- MODULE Spec2Model ----
(***************************************************************************)
(* A model of the multi-pattern matchers of ee-chinese-filtering           *)
(* (src/src/algorithms): BruteForce, Native, the Aho-Corasick automaton    *)
(* (AC) and the Wu-Manber matcher (WM), with the BaseAlgo facade           *)
(* (preprocess + match).                                                   *)
(*                                                                         *)
(* A Python str is a sequence of code points (integers); bytes are a       *)
(* sequence of integers 0..255.  Python's 0-based positions are kept: the  *)
(* helpers At/Slice translate to TLA+'s 1-based sequences.                 *)
(***************************************************************************)
EXTENDS Integers, Sequences, FiniteSets, TLC

\* m       the matcher instance the caller holds (none, built, or the outcome of
\*         a constructor that raised)
\* out     the outcome of the last match call on m
\* lastOk  the last match call on m that returned
\* hashOrder  the order this process iterates sets in (fixed by its hash seed)
\* threads  two matcher instances held by two threads of the process, and the
\*         match call each thread is in
VARIABLES m, out, lastOk, hashOrder, threads

vars == <<m, out, lastOk, hashOrder, threads>>

(***************************************************************************)
(* Bounds of the model.                                                    *)
(***************************************************************************)
\* longest pattern list handed to a constructor (besides the named scenarios)
MaxPatterns == 2
\* calls of insert followed on one instance after its construction
MaxInserts == 1

\* longest text enumerated exhaustively over TextAlphabet
MaxTextLen == 3
\* largest block_size handed to the WM constructor
MaxBlockSize == 3

(***************************************************************************)
(* Python sequence primitives.                                             *)
(***************************************************************************)
Min2(a, b) == IF a <= b THEN a ELSE b

Max2(a, b) == IF a >= b THEN a ELSE b

\* s[i] for a 0-based index i
At(s, i) == s[i + 1]

\* one slice bound, as Python normalises it: negative counts from the end,
\* then clamped to 0..len
SliceIdx(i, n) == IF i < 0 THEN Max2(i + n, 0) ELSE Min2(i, n)

\* s[i:j]
Slice(s, i, j) ==
    LET a == SliceIdx(i, Len(s))
        b == SliceIdx(j, Len(s))
    IN  IF b <= a THEN <<>> ELSE SubSeq(s, a + 1, b)

\* the elements of a list, as a set
AsSet(s) == { s[i] : i \in 1..Len(s) }

\* all sequences over S no longer than n
SeqsUpTo(S, n) == UNION { [1..k -> S] : k \in 0..n }

RECURSIVE Concat(_)
\* "".join(ss)
Concat(ss) == IF ss = <<>> THEN <<>> ELSE Head(ss) \o Concat(Tail(ss))

RECURSIVE MinOf(_)
\* min(iterable) of a non-empty set of integers
MinOf(S) ==
    LET x == CHOOSE y \in S : TRUE
    IN  IF S = {x} THEN x ELSE Min2(x, MinOf(S \ {x}))

(***************************************************************************)
(* UTF-8: str.encode("utf-8") and bytes.decode().                          *)
(***************************************************************************)
\* the UTF-8 bytes of one code point of the Basic Multilingual Plane
EncodeChar(c) ==
    IF c < 128 THEN <<c>>
    ELSE IF c < 2048 THEN <<192 + (c \div 64), 128 + (c % 64)>>
    ELSE <<224 + (c \div 4096), 128 + ((c \div 64) % 64), 128 + (c % 64)>>

RECURSIVE Encode(_)
\* text.encode("utf-8")
Encode(s) == IF s = <<>> THEN <<>> ELSE EncodeChar(Head(s)) \o Encode(Tail(s))

IsCont(b) == b >= 128 /\ b < 192

RECURSIVE DecodeLen(_)
\* len(bs.decode()): the number of code points of bs, or -1 when the strict
\* decoder raises UnicodeDecodeError (a stray continuation byte, a truncated or
\* malformed sequence)
DecodeLen(bs) ==
    IF bs = <<>> THEN 0
    ELSE LET b == Head(bs)
             n == IF b < 128 THEN 1
                  ELSE IF b >= 194 /\ b < 224 THEN 2
                  ELSE IF b >= 224 /\ b < 240 THEN 3
                  ELSE 0
         IN  IF n = 0 \/ Len(bs) < n THEN -1
             ELSE IF \E k \in 2..n : ~IsCont(bs[k]) THEN -1
             ELSE LET r == DecodeLen(SubSeq(bs, n + 1, Len(bs)))
                  IN  IF r = -1 THEN -1 ELSE r + 1

\* a variant of byte_pos_to_char_pos: the byte offset is returned undecoded
byte_pos_to_char_pos_bytes(end_pos, text_bytes, pattern_bytes) ==
    end_pos - Len(pattern_bytes) + 1

\* byte_pos_to_char_pos: the character offset of the start of a match that
\* ends at byte end_pos (-1: the decode raised)
byte_pos_to_char_pos(end_pos, text_bytes, pattern_bytes) ==
    LET start_pos == end_pos - Len(pattern_bytes) + 1
    IN  DecodeLen(Slice(text_bytes, 0, start_pos))

(***************************************************************************)
(* The baseline matchers.  A MatchResult is a list of <<offset, pattern>>. *)
(***************************************************************************)
\* text.find(pattern, idx): the lowest index >= idx where pattern occurs, or -1
Find(text, pattern, idx) ==
    LET hits == { i \in idx..(Len(text) - Len(pattern)) :
                    Slice(text, i, i + Len(pattern)) = pattern }
    IN  IF hits = {} THEN -1 ELSE MinOf(hits)

\* BruteForce._match, the inner comparison: the for/else over the pattern's
\* characters falls through to the else exactly when no character differs
BruteForce_hit(text, pattern, i) ==
    \A j \in 0..(Len(pattern) - 1) : At(text, i + j) = At(pattern, j)

RECURSIVE BruteForce_scan(_, _, _)
\* BruteForce._match, the loop over the start index i of one pattern
BruteForce_scan(text, pattern, i) ==
    IF i >= Len(text) \/ i + Len(pattern) > Len(text) THEN <<>>
    ELSE (IF BruteForce_hit(text, pattern, i) THEN <<(<<i, pattern>>)>> ELSE <<>>)
         \o BruteForce_scan(text, pattern, i + 1)

RECURSIVE BruteForce_match(_, _)
\* BruteForce._match
BruteForce_match(patterns, text) ==
    IF patterns = <<>> THEN <<>>
    ELSE BruteForce_scan(text, Head(patterns), 0)
         \o BruteForce_match(Tail(patterns), text)

\* Native._match: idx += len(pattern)
Native_advance(idx, pattern) == idx + Len(pattern)

RECURSIVE Native_scan(_, _, _, _)
\* Native._match, the while loop of one pattern.  Every iteration that does
\* not leave the loop appends a match; fuel counts the iterations left before
\* the loop is known never to end (idx stops growing: the pattern is empty).
Native_scan(text, pattern, idx, fuel) ==
    IF ~(idx < Len(text)) THEN [diverges |-> FALSE, matches |-> <<>>]
    ELSE LET found == Find(text, pattern, idx)
         IN  IF found = -1 THEN [diverges |-> FALSE, matches |-> <<>>]
             ELSE IF fuel = 0 THEN [diverges |-> TRUE, matches |-> <<>>]
             ELSE LET rest == Native_scan(text, pattern,
                                          Native_advance(found, pattern), fuel - 1)
                  IN  [diverges |-> rest.diverges,
                       matches |-> <<(<<found, pattern>>)>> \o rest.matches]

RECURSIVE Native_match(_, _)
\* Native._match
Native_match(patterns, text) ==
    IF patterns = <<>> THEN [diverges |-> FALSE, matches |-> <<>>]
    ELSE LET one == Native_scan(text, Head(patterns), 0, Len(text))
             rest == Native_match(Tail(patterns), text)
         IN  [diverges |-> one.diverges \/ rest.diverges,
              matches |-> one.matches \o rest.matches]

(***************************************************************************)
(* Python dict primitives.  A dict is a function on its set of keys.       *)
(***************************************************************************)
\* d.get(k, default)
DictGet(d, k, default) == IF k \in DOMAIN d THEN d[k] ELSE default

\* d[k] = v
DictSet(d, k, v) == [x \in (DOMAIN d) \cup {k} |-> IF x = k THEN v ELSE d[x]]

\* {}
EmptyDict == [x \in {} |-> 0]

(***************************************************************************)
(* The Aho-Corasick automaton.  nodes is the list self.nodes (node index n *)
(* is element n + 1); a node is [patterns, children], children being the   *)
(* dict byte -> node index kept as the list of its items in insertion      *)
(* order, which is the order calculate_fail iterates it in.                *)
(***************************************************************************)
\* ACNode()
ACNode == [patterns |-> <<>>, children |-> <<>>]

\* self.nodes[idx]; Python reads a negative index from the end of the list
NodeAt(nodes, idx) == IF idx < 0 THEN nodes[Len(nodes) + idx + 1] ELSE nodes[idx + 1]

\* node.children.get(byte, -1)
ChildGet(node, byte) ==
    LET hits == { k \in 1..Len(node.children) : node.children[k][1] = byte }
    IN  IF hits = {} THEN -1 ELSE node.children[CHOOSE k \in hits : TRUE][2]

RECURSIVE AC_walk(_, _, _)
\* AC.insert, the loop over the pattern's bytes: the trie after the walk and
\* the index of the node the walk ends at
AC_walk(nodes, cur_idx, bytes) ==
    IF bytes = <<>> THEN [nodes |-> nodes, cur_idx |-> cur_idx]
    ELSE LET byte == Head(bytes)
             cur_node == NodeAt(nodes, cur_idx)
         IN  IF ChildGet(cur_node, byte) = -1
             THEN LET new_idx == Len(nodes)
                      grown == [Append(nodes, ACNode) EXCEPT ![cur_idx + 1].children =
                                   Append(@, <<byte, new_idx>>)]
                  IN  AC_walk(grown, new_idx, Tail(bytes))
             ELSE AC_walk(nodes, ChildGet(cur_node, byte), Tail(bytes))

\* AC.insert (the trie part): the pattern is recorded at the node its bytes
\* lead to
AC_insert(nodes, pattern) ==
    LET w == AC_walk(nodes, 0, Encode(pattern))
    IN  [w.nodes EXCEPT ![w.cur_idx + 1].patterns = Append(@, pattern)]

\* a variant of AC_anc_fail: one look at the parent's fail node, no walk up
\* the fail pointers
AC_anc_fail_one_step(nodes, fail, anc_fail, byte) ==
    IF anc_fail # -1 /\ ChildGet(NodeAt(nodes, anc_fail), byte) = -1
    THEN -1
    ELSE anc_fail

RECURSIVE AC_anc_fail(_, _, _, _)
\* AC.calculate_fail, the while loop up the fail pointers: the first node from
\* anc_fail on that has a child on byte, or -1
AC_anc_fail(nodes, fail, anc_fail, byte) ==
    IF anc_fail # -1 /\ ChildGet(NodeAt(nodes, anc_fail), byte) = -1
    THEN AC_anc_fail(nodes, fail, DictGet(fail, anc_fail, -1), byte)
    ELSE anc_fail

\* a variant of AC_set_fail: the fail pointer is set, the fail node's
\* patterns are not copied
AC_set_fail_no_copy(nodes, fail, parent, byte, child) ==
    LET anc_fail == AC_anc_fail(nodes, fail, DictGet(fail, parent, -1), byte)
    IN  IF anc_fail = -1
        THEN [nodes |-> nodes, fail |-> DictSet(fail, child, 0)]
        ELSE [nodes |-> nodes,
              fail |-> DictSet(fail, child, ChildGet(NodeAt(nodes, anc_fail), byte))]

\* a variant of AC_set_fail: the fail pointer of a node is the node created
\* before it, whatever its depth
AC_set_fail_previous(nodes, fail, parent, byte, child) ==
    [nodes |-> nodes, fail |-> DictSet(fail, child, child - 1)]

\* a variant of AC_set_fail: a child without a fail node gets no entry in the
\* fail table
AC_set_fail_no_root_entry(nodes, fail, parent, byte, child) ==
    LET anc_fail == AC_anc_fail(nodes, fail, DictGet(fail, parent, -1), byte)
    IN  IF anc_fail = -1
        THEN [nodes |-> nodes, fail |-> fail]
        ELSE LET cur_fail == ChildGet(NodeAt(nodes, anc_fail), byte)
                 cur_fail_node == NodeAt(nodes, cur_fail)
             IN  [nodes |-> [nodes EXCEPT ![child + 1].patterns =
                                @ \o cur_fail_node.patterns],
                  fail |-> DictSet(fail, child, cur_fail)]

\* AC.calculate_fail, the body of the loop over one parent's children: the
\* child's fail pointer, and the fail node's patterns copied to the child
AC_set_fail(nodes, fail, parent, byte, child) ==
    LET anc_fail == AC_anc_fail(nodes, fail, DictGet(fail, parent, -1), byte)
    IN  IF anc_fail = -1
        THEN [nodes |-> nodes, fail |-> DictSet(fail, child, 0)]
        ELSE LET cur_fail == ChildGet(NodeAt(nodes, anc_fail), byte)
                 cur_fail_node == NodeAt(nodes, cur_fail)
             IN  [nodes |-> [nodes EXCEPT ![child + 1].patterns =
                                @ \o cur_fail_node.patterns],
                  fail |-> DictSet(fail, child, cur_fail)]

RECURSIVE AC_fail_children(_, _, _, _, _)
\* AC.calculate_fail, the loop over the children of one parent
AC_fail_children(nodes, fail, queue, parent, items) ==
    IF items = <<>> THEN [nodes |-> nodes, fail |-> fail, queue |-> queue]
    ELSE LET byte == Head(items)[1]
             child == Head(items)[2]
         IN  IF child = -1
             THEN AC_fail_children(nodes, fail, queue, parent, Tail(items))
             ELSE LET s == AC_set_fail(nodes, fail, parent, byte, child)
                  IN  AC_fail_children(s.nodes, s.fail, Append(queue, child),
                                       parent, Tail(items))

RECURSIVE AC_fail_bfs(_, _, _)
\* AC.calculate_fail, the breadth-first loop; the root's fail pointer is set
\* last
AC_fail_bfs(nodes, fail, queue) ==
    IF queue = <<>> THEN [nodes |-> nodes, fail |-> DictSet(fail, 0, 0)]
    ELSE LET parent == Head(queue)
             s == AC_fail_children(nodes, fail, Tail(queue), parent,
                                   NodeAt(nodes, parent).children)
         IN  AC_fail_bfs(s.nodes, s.fail, s.queue)

\* AC.calculate_fail
AC_calculate_fail(nodes, fail) == AC_fail_bfs(nodes, fail, <<0>>)

RECURSIVE AC_insert_all(_, _)
\* AC.__init__, the loop inserting every pattern
AC_insert_all(nodes, patterns) ==
    IF patterns = <<>> THEN nodes
    ELSE AC_insert_all(AC_insert(nodes, Head(patterns)), Tail(patterns))

\* AC.__init__: the trie and the fail table of a pattern list
AC_build(patterns) == AC_calculate_fail(AC_insert_all(<<ACNode>>, patterns), EmptyDict)

RECURSIVE AC_follow(_, _, _, _, _)
\* AC._match, the while loop down the fail pointers: the node it stops at and
\* the number of fail pointers followed.  A node without a fail entry yields
\* the sentinel -1, which the loop then reads as the index of the last node:
\* when that node has no child on byte either, the loop never ends.
AC_follow(nodes, fail, cur_idx, byte, follows) ==
    IF cur_idx # 0 /\ ChildGet(NodeAt(nodes, cur_idx), byte) = -1
    THEN IF cur_idx = -1
         THEN [cur_idx |-> -1, follows |-> follows, diverges |-> TRUE]
         ELSE AC_follow(nodes, fail, DictGet(fail, cur_idx, -1), byte, follows + 1)
    ELSE [cur_idx |-> cur_idx, follows |-> follows, diverges |-> FALSE]

RECURSIVE AC_emit(_, _, _)
\* AC._match, the loop over the patterns of the node reached
AC_emit(patterns, pos, text_bytes) ==
    IF patterns = <<>> THEN <<>>
    ELSE <<(<<byte_pos_to_char_pos(pos, text_bytes, Encode(Head(patterns))),
              Head(patterns)>>)>>
         \o AC_emit(Tail(patterns), pos, text_bytes)

RECURSIVE AC_scan(_, _, _, _, _)
\* AC._match, the loop over the text's bytes from byte position pos on
AC_scan(nodes, fail, text_bytes, pos, cur_idx) ==
    IF pos >= Len(text_bytes)
    THEN [matches |-> <<>>, follows |-> 0, sentinel |-> FALSE, diverges |-> FALSE]
    ELSE LET byte == At(text_bytes, pos)
             f == AC_follow(nodes, fail, cur_idx, byte, 0)
         IN  IF f.diverges
             THEN [matches |-> <<>>, follows |-> f.follows, sentinel |-> TRUE,
                   diverges |-> TRUE]
             ELSE LET cur_node == NodeAt(nodes, f.cur_idx)
                      moved == ChildGet(cur_node, byte) # -1
                      next_idx == IF moved THEN ChildGet(cur_node, byte) ELSE f.cur_idx
                      here == IF moved
                              THEN AC_emit(NodeAt(nodes, next_idx).patterns, pos,
                                           text_bytes)
                              ELSE <<>>
                      rest == AC_scan(nodes, fail, text_bytes, pos + 1, next_idx)
                  IN  [matches |-> here \o rest.matches,
                       follows |-> f.follows + rest.follows,
                       sentinel |-> f.cur_idx = -1 \/ rest.sentinel,
                       diverges |-> rest.diverges]

\* AC._match
AC_match(nodes, fail, text) == AC_scan(nodes, fail, Encode(text), 0, 0)

(***************************************************************************)
(* Iterating a Python set.  The order is fixed by the hashes of the        *)
(* elements, which the program does not control: rev chooses between two   *)
(* of the orders a run can see (ascending and descending in a fixed total  *)
(* order of the values).                                                   *)
(***************************************************************************)
RECURSIVE SeqLess(_, _)
\* a total order on lists of integers
SeqLess(a, b) ==
    IF a = <<>> THEN b # <<>>
    ELSE IF b = <<>> THEN FALSE
    ELSE IF Head(a) # Head(b) THEN Head(a) < Head(b)
    ELSE SeqLess(Tail(a), Tail(b))

RECURSIVE Sorted(_)
\* a set of lists of integers, ascending
Sorted(S) ==
    IF S = {} THEN <<>>
    ELSE LET lo == CHOOSE x \in S : \A y \in S \ {x} : SeqLess(x, y)
         IN  <<lo>> \o Sorted(S \ {lo})

RECURSIVE Reverse(_)
Reverse(s) == IF s = <<>> THEN <<>> ELSE Append(Reverse(Tail(s)), Head(s))

\* list(S) / for x in S
Iterate(S, rev) == IF rev THEN Reverse(Sorted(S)) ELSE Sorted(S)

(***************************************************************************)
(* The Wu-Manber matcher.  A Block is a list of block_size bytes; shift is *)
(* a dict Block -> int; hash and prefix are dicts Block -> set of          *)
(* patterns.                                                               *)
(***************************************************************************)
\* WM.__init__: min(len(p.encode("utf-8")) for p in patterns)
WM_min_ptn_len(patterns) == MinOf({ Len(Encode(patterns[k])) : k \in 1..Len(patterns) })

\* a variant of WM_rejects: a pattern of exactly block_size bytes is refused
WM_rejects_equal(min_ptn_len, block_size) == min_ptn_len <= block_size

\* WM.__init__: if self.min_ptn_len < self.block_size: raise ValueError
WM_rejects(min_ptn_len, block_size) == min_ptn_len < block_size

\* a variant of WM_shift_value: the distance is taken from the start of the
\* block
WM_shift_value_block_start(min_ptn_len, block_size, i) == min_ptn_len - i - 1

\* WM.insert: the distance from the end of the block at i to the end of the
\* first min_ptn_len bytes
WM_shift_value(min_ptn_len, block_size, i) == min_ptn_len - i - block_size

RECURSIVE WM_insert_shift(_, _, _, _, _)
\* WM.insert, the loop over the blocks of the first min_ptn_len bytes
WM_insert_shift(shift, pattern_bytes, min_ptn_len, block_size, i) ==
    IF i >= min_ptn_len - block_size + 1 THEN shift
    ELSE LET block == Slice(pattern_bytes, i, i + block_size)
             val == Min2(DictGet(shift, block, min_ptn_len),
                         WM_shift_value(min_ptn_len, block_size, i))
         IN  WM_insert_shift(DictSet(shift, block, val), pattern_bytes,
                             min_ptn_len, block_size, i + 1)

\* d.setdefault(key, set()).add(pattern)
SetAdd(d, key, pattern) == DictSet(d, key, DictGet(d, key, {}) \cup {pattern})

\* WM.insert (the tables)
WM_insert(t, pattern) ==
    LET pattern_bytes == Encode(pattern)
        suffix_key == Slice(pattern_bytes, t.min_ptn_len - t.block_size, t.min_ptn_len)
        prefix_key == Slice(pattern_bytes, 0, t.block_size)
    IN  [t EXCEPT !.shift = WM_insert_shift(@, pattern_bytes, t.min_ptn_len,
                                            t.block_size, 0),
                  !.hash = SetAdd(@, suffix_key, pattern),
                  !.prefix = SetAdd(@, prefix_key, pattern)]

RECURSIVE WM_insert_all(_, _)
\* WM.__init__, the loop inserting every pattern
WM_insert_all(t, patterns) ==
    IF patterns = <<>> THEN t
    ELSE WM_insert_all(WM_insert(t, Head(patterns)), Tail(patterns))

\* the tables of a WM instance before the first insert
WM_empty(min_ptn_len, block_size) ==
    [min_ptn_len |-> min_ptn_len, block_size |-> block_size,
     shift |-> EmptyDict, hash |-> EmptyDict, prefix |-> EmptyDict]

\* a variant of WM_default_shift: the default skips a whole window
WM_default_shift_window(min_ptn_len, block_size) == min_ptn_len + 1

\* WM._match: the shift of a block that is in no pattern
WM_default_shift(min_ptn_len, block_size) == min_ptn_len - block_size + 1

RECURSIVE WM_verify_unchecked(_, _, _)
\* a variant of WM_verify: every candidate of the block intersection is
\* reported, its bytes are not compared with the text
WM_verify_unchecked(cands, text_bytes, start_pos) ==
    IF cands = <<>> THEN <<>>
    ELSE LET pattern == Head(cands)
             pattern_bytes == Encode(pattern)
         IN  <<(<<byte_pos_to_char_pos(start_pos + Len(pattern_bytes) - 1,
                                       text_bytes, pattern_bytes),
                  pattern>>)>>
             \o WM_verify_unchecked(Tail(cands), text_bytes, start_pos)

RECURSIVE WM_verify(_, _, _)
\* WM._match, the loop over the candidate patterns (cands: the candidates in
\* the order the set is iterated in)
WM_verify(cands, text_bytes, start_pos) ==
    IF cands = <<>> THEN <<>>
    ELSE LET pattern == Head(cands)
             pattern_bytes == Encode(pattern)
             target_bytes == Slice(text_bytes, start_pos, start_pos + Len(pattern_bytes))
         IN  (IF target_bytes = pattern_bytes
              THEN <<(<<byte_pos_to_char_pos(start_pos + Len(pattern_bytes) - 1,
                                             text_bytes, pattern_bytes),
                        pattern>>)>>
              ELSE <<>>)
             \o WM_verify(Tail(cands), text_bytes, start_pos)

RECURSIVE WM_scan(_, _, _, _)
\* WM._match, the while loop from end position end_pos on.  order is the order
\* in which this process iterates a set.  visits lists every end position the
\* loop looked at with its shift value.
WM_scan(t, order, text_bytes, end_pos) ==
    IF ~(end_pos < Len(text_bytes)) THEN [matches |-> <<>>, visits |-> <<>>]
    ELSE LET end_block == Slice(text_bytes, end_pos - t.block_size + 1, end_pos + 1)
             shift_val == DictGet(t.shift, end_block,
                                  WM_default_shift(t.min_ptn_len, t.block_size))
         IN  IF shift_val # 0
             THEN LET rest == WM_scan(t, order, text_bytes, end_pos + shift_val)
                  IN  [matches |-> rest.matches,
                       visits |-> <<(<<end_pos, shift_val>>)>> \o rest.visits]
             ELSE LET start_pos == end_pos - t.min_ptn_len + 1
                      start_block == Slice(text_bytes, start_pos,
                                           start_pos + t.block_size)
                      potential_matches == DictGet(t.hash, end_block, {})
                                           \cap DictGet(t.prefix, start_block, {})
                      here == WM_verify(Iterate(potential_matches, order),
                                        text_bytes, start_pos)
                      rest == WM_scan(t, order, text_bytes, end_pos + 1)
                  IN  [matches |-> here \o rest.matches,
                       visits |-> <<(<<end_pos, 0>>)>> \o rest.visits]

\* WM._match
WM_match(t, order, text) == WM_scan(t, order, Encode(text), t.min_ptn_len - 1)

(***************************************************************************)
(* get_combinations_from_sequence.                                         *)
(***************************************************************************)
RECURSIVE CombinationsFrom(_, _, _, _)
\* the slices seq[i:j'] for j' from j on, then those of the later i
CombinationsFrom(seq, min_dist, i, j) ==
    IF i >= Len(seq) THEN <<>>
    ELSE IF j > Len(seq) THEN CombinationsFrom(seq, min_dist, i + 1, i + 1 + min_dist)
    ELSE <<(<<i, j>>)>> \o CombinationsFrom(seq, min_dist, i, j + 1)

\* the index pairs (i, j) of get_combinations_from_sequence, in its order
CombinationRanges(seq, min_dist) == CombinationsFrom(seq, min_dist, 0, min_dist)

\* get_combinations_from_sequence(seq, min_dist)
get_combinations_from_sequence(seq, min_dist) ==
    LET r == CombinationRanges(seq, min_dist)
    IN  [k \in 1..Len(r) |-> Slice(seq, r[k][1], r[k][2])]

\* get_combinations_from_sequence(seq, pattern=pattern): the pairs
\* (seq[i:j], pattern[i:j]); an empty pattern takes the branch without pairs,
\* which yields nothing for the empty seq that goes with it
get_combinations_with_pattern(seq, pattern) ==
    LET r == CombinationRanges(seq, 1)
    IN  IF pattern # <<>>
        THEN [k \in 1..Len(r) |-> <<Slice(seq, r[k][1], r[k][2]),
                                    Slice(pattern, r[k][1], r[k][2])>>]
        ELSE get_combinations_from_sequence(seq, 1)

(***************************************************************************)
(* The collaborators of the fuzzy preprocessor, on the characters the      *)
(* model uses: the radical table (radical_dict.RADICAL_MAP), the readings  *)
(* of pypinyin, the syllables of PinyinTokenizer, text_unidecode.          *)
(* Code points: U+4ED6 (ta, "he") 20182, U+5979 (ta, "she") 22905,        *)
(* U+4EEC (men) 20204, U+7684 (de) 30340, U+548C (he, "and") 21644; the    *)
(* components U+4EBB 20155, U+4E5F 20063, U+5973 22899, U+95E8 38376;      *)
(* a 97, d 100, e 101, i 105, m 109, n 110, t 116, space 32.               *)
(***************************************************************************)
\* RADICAL_MAP: character -> the decompositions ("methods") that spell it
RADICAL_MAP ==
    [c \in {20182, 22905, 20204} |->
        IF c = 20182 THEN <<(<<20155, 20063>>)>>
        ELSE IF c = 22905 THEN <<(<<22899, 20063>>)>>
        ELSE <<(<<20155, 38376>>)>>]

\* pypinyin.pinyin(char, heteronym=True, style=Style.NORMAL): the readings of
\* one character; a character without a reading is returned as it is
Readings(c) ==
    IF c = 20182 \/ c = 22905 THEN <<(<<116, 97>>)>>
    ELSE IF c = 30340 THEN <<(<<100, 101>>), (<<100, 105>>)>>
    ELSE IF c = 20204 THEN <<(<<109, 101, 110>>)>>
    ELSE <<(<<c>>)>>

\* the syllables PinyinTokenizer knows, over the letters a d e i m n t
Syllables ==
    { <<97>>, <<101>>, <<97, 110>>, <<101, 110>>, <<100, 97>>, <<100, 101>>,
      <<100, 105>>, <<109, 101>>, <<109, 101, 110>>, <<116, 97>>, <<116, 105>> }

\* str.lower(), one character
Lower(c) ==
    IF c >= 65 /\ c <= 90 THEN c + 32
    ELSE IF c >= 192 /\ c <= 222 /\ c # 215 THEN c + 32
    ELSE c

\* text_unidecode.unidecode, one character: ASCII is kept, an accented Latin-1
\* letter loses its accent, a CJK Extension A ideograph becomes its capitalised
\* reading followed by a space (U+3400: "Qiu "), anything else is dropped
unidecode_char(c) ==
    IF c < 128 THEN <<c>>
    ELSE IF c >= 224 /\ c <= 229 THEN <<97>>
    ELSE IF c >= 232 /\ c <= 235 THEN <<101>>
    ELSE IF c = 13312 THEN <<81, 105, 117, 32>>
    ELSE <<>>

\* [U+4E00-U+9FFF], the characters normalisation leaves alone
IsChinese(c) == c >= 19968 /\ c <= 40959

\* [U+4E00-U+9FA5], the characters the map insertions keep
IsChinesePattern(c) == c >= 19968 /\ c <= 40869

RECURSIVE Normalize(_)
\* BaseAlgo.preprocess: re.sub(r"[^U+4E00-U+9FFF]+", unidecode, text.lower());
\* unidecode transliterates a run character by character
Normalize(text) ==
    IF text = <<>> THEN <<>>
    ELSE LET c == Lower(Head(text))
         IN  (IF IsChinese(c) THEN <<c>> ELSE unidecode_char(c)) \o Normalize(Tail(text))

\* re.sub(r"[^U+4E00-U+9FA5]", "", pattern)
OnlyChinese(pattern) == SelectSeq(pattern, IsChinesePattern)

(***************************************************************************)
(* BaseAlgo._insert_radical and BaseAlgo._insert_pinyin.                   *)
(***************************************************************************)
RECURSIVE RadicalItems(_)
\* the (method, char) pairs of the comprehension, in its order
RadicalItems(pattern) ==
    IF pattern = <<>> THEN <<>>
    ELSE LET char == Head(pattern)
         IN  (IF char \in DOMAIN RADICAL_MAP
              THEN [k \in 1..Len(RADICAL_MAP[char]) |-> <<RADICAL_MAP[char][k], <<char>>>>]
              ELSE <<>>)
             \o RadicalItems(Tail(pattern))

RECURSIVE ComprehensionDict(_, _, _)
\* { key: old.get(key, set()).union({value}) for (key, value) in items }: every
\* entry starts from the set old holds, so a later item with the same key
\* replaces the entry an earlier item made
ComprehensionDict(old, items, acc) ==
    IF items = <<>> THEN acc
    ELSE ComprehensionDict(old, Tail(items),
                           DictSet(acc, Head(items)[1],
                                   DictGet(old, Head(items)[1], {}) \cup {Head(items)[2]}))

\* d.update(new)
DictUpdate(d, new) ==
    [k \in (DOMAIN d) \cup (DOMAIN new) |-> IF k \in DOMAIN new THEN new[k] ELSE d[k]]

\* BaseAlgo._insert_radical (ENABLE_RADICAL set)
insert_radical(radical_map, pattern) ==
    DictUpdate(radical_map,
               ComprehensionDict(radical_map, RadicalItems(OnlyChinese(pattern)),
                                 EmptyDict))

RECURSIVE Product(_)
\* itertools.product(*lists), as a set
Product(lists) ==
    IF lists = <<>> THEN { <<>> }
    ELSE { <<Head(lists)[k]>> \o rest : k \in 1..Len(Head(lists)), rest \in Product(Tail(lists)) }

RECURSIVE JoinWith(_, _)
\* the lists of ss, each followed by sep
JoinWith(ss, sep) ==
    IF ss = <<>> THEN <<>> ELSE Head(ss) \o <<sep>> \o JoinWith(Tail(ss), sep)

\* a list of integers that orders the (syllables, sub-pattern) pairs
CombinationKey(pair) == JoinWith(pair[1], 1) \o <<0>> \o pair[2]

RECURSIVE SortedPairs(_)
\* a set of (syllables, sub-pattern) pairs, ascending by key
SortedPairs(S) ==
    IF S = {} THEN <<>>
    ELSE LET lo == CHOOSE x \in S :
                     \A y \in S \ {x} : SeqLess(CombinationKey(x), CombinationKey(y))
         IN  <<lo>> \o SortedPairs(S \ {lo})

\* list(S) for a set of pairs
IteratePairs(S, rev) == IF rev THEN Reverse(SortedPairs(S)) ELSE SortedPairs(S)

\* a variant of insert_pinyin: every character is given its first reading only
insert_pinyin_first_reading(pinyin_map, pattern, rev) ==
    LET chinese == OnlyChinese(pattern)
        pattern_pinyin == [k \in 1..Len(chinese) |-> <<Readings(chinese[k])[1]>>]
        full_combinations == Product(pattern_pinyin)
        combinations ==
            UNION { AsSet(get_combinations_with_pattern(full, chinese)) :
                    full \in full_combinations }
    IN  DictUpdate(pinyin_map,
                   ComprehensionDict(pinyin_map, IteratePairs(combinations, rev),
                                     EmptyDict))

\* BaseAlgo._insert_pinyin (ENABLE_PINYIN set)
insert_pinyin(pinyin_map, pattern, rev) ==
    LET chinese == OnlyChinese(pattern)
        pattern_pinyin == [k \in 1..Len(chinese) |-> Readings(chinese[k])]
        full_combinations == Product(pattern_pinyin)
        combinations ==
            UNION { AsSet(get_combinations_with_pattern(full, chinese)) :
                    full \in full_combinations }
    IN  DictUpdate(pinyin_map,
                   ComprehensionDict(pinyin_map, IteratePairs(combinations, rev),
                                     EmptyDict))

RECURSIVE insert_maps(_, _, _)
\* the map insertions of every pattern, in the order of the pattern list
insert_maps(maps, patterns, rev) ==
    IF patterns = <<>> THEN maps
    ELSE LET p == Head(patterns)
             one == [maps EXCEPT
                       !.pinyin_map = IF maps.ENABLE_PINYIN
                                      THEN insert_pinyin(@, p, rev) ELSE @,
                       !.radical_map = IF maps.ENABLE_RADICAL
                                       THEN insert_radical(@, p) ELSE @]
         IN  insert_maps(one, Tail(patterns), rev)

\* BaseAlgo.__init__: the flags and the two maps (a disabled map does not
\* exist; it is kept empty here and never read)
BaseAlgo_init(patterns, enable_radical, enable_pinyin, manual_insert, rev) ==
    LET empty == [ENABLE_RADICAL |-> enable_radical, ENABLE_PINYIN |-> enable_pinyin,
                  pinyin_map |-> EmptyDict, radical_map |-> EmptyDict]
    IN  IF ~manual_insert /\ (enable_pinyin \/ enable_radical)
        THEN insert_maps(empty, patterns, rev)
        ELSE empty

(***************************************************************************)
(* BaseAlgo.preprocess.                                                    *)
(***************************************************************************)
RECURSIVE RunsOf(_, _, _, _)
\* re.findall over text from position pos: the maximal runs, two characters
\* or longer, of characters of U; run is the run being read
RunsOf(text, pos, U, run) ==
    IF pos >= Len(text) THEN (IF Len(run) >= 2 THEN <<run>> ELSE <<>>)
    ELSE IF At(text, pos) \in U THEN RunsOf(text, pos + 1, U, Append(run, At(text, pos)))
    ELSE (IF Len(run) >= 2 THEN <<run>> ELSE <<>>) \o RunsOf(text, pos + 1, U, <<>>)

\* re.findall(rf"[{unique_radicals}]{{2,}}", text)
RadicalRuns(text, unique_radicals) == RunsOf(text, 0, unique_radicals, <<>>)

RECURSIVE Replace(_, _, _)
\* text.replace(old, new) for a non-empty old: every occurrence, left to right
Replace(text, old, new) ==
    IF Len(text) < Len(old) THEN text
    ELSE IF Slice(text, 0, Len(old)) = old
         THEN new \o Replace(Slice(text, Len(old), Len(text)), old, new)
         ELSE <<Head(text)>> \o Replace(Tail(text), old, new)

RECURSIVE RadicalHits(_, _, _, _)
\* BaseAlgo.preprocess, the loop over the combinations of one radical group
RadicalHits(radical_map, text, combinations, rev) ==
    IF combinations = <<>> THEN <<>>
    ELSE LET r_combination == Head(combinations)
             rest == RadicalHits(radical_map, text, Tail(combinations), rev)
         IN  IF r_combination \notin DOMAIN radical_map THEN rest
             ELSE LET potential_chars == Iterate(radical_map[r_combination], rev)
                  IN  [k \in 1..Len(potential_chars) |->
                         Replace(text, r_combination, potential_chars[k])] \o rest

RECURSIVE RadicalGroups(_, _, _, _)
\* BaseAlgo.preprocess, the loop over the radical groups
RadicalGroups(radical_map, text, groups, rev) ==
    IF groups = <<>> THEN <<>>
    ELSE RadicalHits(radical_map, text,
                     get_combinations_from_sequence(Head(groups), 2), rev)
         \o RadicalGroups(radical_map, text, Tail(groups), rev)

\* BaseAlgo.preprocess, the radical expansion: the rewritten candidates
RadicalCandidates(radical_map, text, rev) ==
    LET unique_radicals == UNION { AsSet(key) : key \in DOMAIN radical_map }
        potential_radicals == AsSet(RadicalRuns(text, unique_radicals))
    IN  RadicalGroups(radical_map, text, Iterate(potential_radicals, rev), rev)

IsLower(c) == c >= 97 /\ c <= 122

\* \s of the re module, on the characters of a normalised text
IsSpace(c) == c = 32 \/ (c >= 9 /\ c <= 13)

RECURSIVE PinyinGroupEnd(_, _)
\* the end of the match of (?:[a-z]+ ?)+ that starts at the letter at pos
PinyinGroupEnd(text, pos) ==
    IF pos < Len(text) /\ IsLower(At(text, pos)) THEN PinyinGroupEnd(text, pos + 1)
    ELSE IF pos < Len(text) /\ At(text, pos) = 32
         THEN IF pos + 1 < Len(text) /\ IsLower(At(text, pos + 1))
              THEN PinyinGroupEnd(text, pos + 1)
              ELSE pos + 1
         ELSE pos

RECURSIVE PinyinGroups(_, _)
\* re.findall(r"(?:[a-z]+ ?)+", text), from position pos on
PinyinGroups(text, pos) ==
    IF pos >= Len(text) THEN <<>>
    ELSE IF IsLower(At(text, pos))
         THEN LET e == PinyinGroupEnd(text, pos)
              IN  <<Slice(text, pos, e)>> \o PinyinGroups(text, e)
         ELSE PinyinGroups(text, pos + 1)

RECURSIVE tokenize(_)
\* tokenize(text)[0]: the syllables of text, the longest known syllable first;
\* a character that starts no syllable is skipped
tokenize(text) ==
    IF text = <<>> THEN <<>>
    ELSE LET lens == { n \in 1..Len(text) : Slice(text, 0, n) \in Syllables }
         IN  IF lens = {} THEN tokenize(Tail(text))
             ELSE LET n == CHOOSE x \in lens : \A y \in lens : y <= x
                  IN  <<Slice(text, 0, n)>> \o tokenize(Slice(text, n, Len(text)))

RECURSIVE SkipSpace(_, _)
\* \s*: the position after the white space at pos
SkipSpace(text, pos) ==
    IF pos < Len(text) /\ IsSpace(At(text, pos)) THEN SkipSpace(text, pos + 1) ELSE pos

RECURSIVE PinyinMatchEnd(_, _, _)
\* the end of the match of r"\s*".join(syllables) at pos, or -1
PinyinMatchEnd(text, pos, syllables) ==
    IF Slice(text, pos, pos + Len(Head(syllables))) # Head(syllables) THEN -1
    ELSE IF Len(syllables) = 1 THEN pos + Len(Head(syllables))
    ELSE PinyinMatchEnd(text, SkipSpace(text, pos + Len(Head(syllables))),
                        Tail(syllables))

RECURSIVE PinyinSub(_, _, _, _)
\* re.sub(r"\s*".join(map(re.escape, p_combination)), character, text), from
\* position pos on.  The white space before a syllable that then fails to
\* match is given back: the match is tried with less of it, and a syllable
\* starts with a letter, so no shorter run of white space helps.
PinyinSub(text, pos, syllables, character) ==
    IF pos >= Len(text) THEN <<>>
    ELSE LET e == PinyinMatchEnd(text, pos, syllables)
         IN  IF e = -1
             THEN <<At(text, pos)>> \o PinyinSub(text, pos + 1, syllables, character)
             ELSE character \o PinyinSub(text, e, syllables, character)

RECURSIVE PinyinHits(_, _, _, _)
\* BaseAlgo.preprocess, the loop over the combinations of one pinyin group
PinyinHits(pinyin_map, text, combinations, rev) ==
    IF combinations = <<>> THEN <<>>
    ELSE LET p_combination == Head(combinations)
             rest == PinyinHits(pinyin_map, text, Tail(combinations), rev)
         IN  IF p_combination \notin DOMAIN pinyin_map THEN rest
             ELSE LET potential_chars == Iterate(pinyin_map[p_combination], rev)
                  IN  [k \in 1..Len(potential_chars) |->
                         PinyinSub(text, 0, p_combination, potential_chars[k])] \o rest

\* "".join(pinyin_group.split())
StripSpace(group) == SelectSeq(group, LAMBDA c : ~IsSpace(c))

RECURSIVE PinyinGroupLoop(_, _, _, _)
\* BaseAlgo.preprocess, the loop over the pinyin groups
PinyinGroupLoop(pinyin_map, text, groups, rev) ==
    IF groups = <<>> THEN <<>>
    ELSE LET pinyin_list == tokenize(Head(groups))
             pinyin_list_stripped == tokenize(StripSpace(Head(groups)))
             pinyin_combinations ==
                 get_combinations_from_sequence(pinyin_list, 1)
                 \o get_combinations_from_sequence(pinyin_list_stripped, 1)
         IN  PinyinHits(pinyin_map, text, pinyin_combinations, rev)
             \o PinyinGroupLoop(pinyin_map, text, Tail(groups), rev)

\* BaseAlgo.preprocess, the pinyin expansion: the rewritten candidates
PinyinCandidates(pinyin_map, text, rev) ==
    PinyinGroupLoop(pinyin_map, text, PinyinGroups(text, 0), rev)

\* a variant of preprocess: the rewritten candidates come first
preprocess_original_last(inst, text, rev) ==
    LET norm == Normalize(text)
    IN  (IF inst.ENABLE_RADICAL /\ DOMAIN inst.radical_map # {}
         THEN RadicalCandidates(inst.radical_map, norm, rev) ELSE <<>>)
        \o (IF inst.ENABLE_PINYIN /\ DOMAIN inst.pinyin_map # {}
            THEN PinyinCandidates(inst.pinyin_map, norm, rev) ELSE <<>>)
        \o <<norm>>

\* BaseAlgo.preprocess for a non-empty str: the normalised text, then the
\* radical rewrites, then the pinyin rewrites
preprocess(inst, text, rev) ==
    LET norm == Normalize(text)
    IN  <<norm>>
        \o (IF inst.ENABLE_RADICAL /\ DOMAIN inst.radical_map # {}
            THEN RadicalCandidates(inst.radical_map, norm, rev) ELSE <<>>)
        \o (IF inst.ENABLE_PINYIN /\ DOMAIN inst.pinyin_map # {}
            THEN PinyinCandidates(inst.pinyin_map, norm, rev) ELSE <<>>)

(***************************************************************************)
(* The four constructors.  An instance is one record for every class: the  *)
(* fields a class does not have stay empty.                                *)
(***************************************************************************)
NoTables == [min_ptn_len |-> 0, block_size |-> 0,
             shift |-> EmptyDict, hash |-> EmptyDict, prefix |-> EmptyDict]

\* given is the pattern list the constructor was called with (AC and WM do not
\* keep it; the properties below refer to it); inserts counts the calls of
\* insert made on the instance after its constructor returned
NoInstance ==
    [status |-> "none", kind |-> "none", error |-> "none", given |-> <<>>,
     inserts |-> 0, patterns |-> <<>>,
     ENABLE_RADICAL |-> FALSE, ENABLE_PINYIN |-> FALSE,
     pinyin_map |-> EmptyDict, radical_map |-> EmptyDict,
     nodes |-> <<>>, fail |-> EmptyDict, wm |-> NoTables]

\* the instance after BaseAlgo.__init__
BaseInstance(kind, patterns, base) ==
    [NoInstance EXCEPT !.status = "built", !.kind = kind, !.given = patterns,
                       !.ENABLE_RADICAL = base.ENABLE_RADICAL,
                       !.ENABLE_PINYIN = base.ENABLE_PINYIN,
                       !.pinyin_map = base.pinyin_map,
                       !.radical_map = base.radical_map]

\* BruteForce.__init__
BruteForce_init(patterns, enable_radical, enable_pinyin, order) ==
    [BaseInstance("BruteForce", patterns,
                  BaseAlgo_init(patterns, enable_radical, enable_pinyin, FALSE, order))
       EXCEPT !.patterns = patterns]

\* Native.__init__
Native_init(patterns, enable_radical, enable_pinyin, order) ==
    [BaseInstance("Native", patterns,
                  BaseAlgo_init(patterns, enable_radical, enable_pinyin, FALSE, order))
       EXCEPT !.patterns = patterns]

\* a variant of AC_init: the patterns are inserted in the order a set of them
\* is iterated in
AC_init_set_order(patterns, enable_radical, enable_pinyin, order) ==
    LET base == BaseAlgo_init(patterns, enable_radical, enable_pinyin, TRUE, order)
        maps == insert_maps(base, patterns, order)
        built == AC_build(Iterate(AsSet(patterns), order))
    IN  [BaseInstance("AC", patterns, maps) EXCEPT !.nodes = built.nodes, !.fail = built.fail]

\* AC.__init__: every insert also runs the two map insertions
AC_init(patterns, enable_radical, enable_pinyin, order) ==
    LET base == BaseAlgo_init(patterns, enable_radical, enable_pinyin, TRUE, order)
        maps == insert_maps(base, patterns, order)
        built == AC_build(patterns)
    IN  [BaseInstance("AC", patterns, maps) EXCEPT !.nodes = built.nodes, !.fail = built.fail]

\* WM.__init__: min() of no pattern raises ValueError, and so does a pattern
\* shorter than block_size; the tables exist only after that check
WM_init(patterns, block_size, enable_radical, enable_pinyin, order) ==
    LET base == BaseAlgo_init(patterns, enable_radical, enable_pinyin, TRUE, order)
        failed == [BaseInstance("WM", patterns, base) EXCEPT !.status = "failed",
                                                   !.error = "ValueError",
                                                   !.wm.block_size = block_size]
    IN  IF patterns = <<>> THEN failed
        ELSE LET min_ptn_len == WM_min_ptn_len(patterns)
             IN  IF WM_rejects(min_ptn_len, block_size)
                 THEN [failed EXCEPT !.wm.min_ptn_len = min_ptn_len]
                 ELSE LET maps == insert_maps(base, patterns, order)
                      IN  [BaseInstance("WM", patterns, maps) EXCEPT
                              !.wm = WM_insert_all(WM_empty(min_ptn_len, block_size),
                                                   patterns)]

\* instance.insert(pattern) on an instance its constructor has returned:
\* AC.insert extends the trie (calculate_fail is not run again), WM.insert
\* extends the tables (min_ptn_len stays), and both run the map insertions
insert(inst, pattern, order) ==
    LET maps == insert_maps(inst, <<pattern>>, order)
    IN  IF inst.kind = "AC"
        THEN [maps EXCEPT !.nodes = AC_insert(inst.nodes, pattern),
                          !.inserts = @ + 1]
        ELSE [maps EXCEPT !.wm = WM_insert(inst.wm, pattern),
                          !.inserts = @ + 1]

(***************************************************************************)
(* BaseAlgo.match.                                                         *)
(***************************************************************************)
NoScan == [matches |-> <<>>, diverges |-> FALSE, visits |-> <<>>, follows |-> 0,
           sentinel |-> FALSE]

\* self._match(text), by class: the matches, whether the call never returns,
\* and what the scan did (WM: the end positions visited; AC: the fail
\* pointers followed)
match_one(inst, text, order) ==
    IF inst.kind = "BruteForce"
    THEN [NoScan EXCEPT !.matches = BruteForce_match(inst.patterns, text)]
    ELSE IF inst.kind = "Native"
    THEN LET r == Native_match(inst.patterns, text)
         IN  [NoScan EXCEPT !.matches = r.matches, !.diverges = r.diverges]
    ELSE IF inst.kind = "AC"
    THEN LET r == AC_match(inst.nodes, inst.fail, text)
         IN  [NoScan EXCEPT !.matches = r.matches, !.diverges = r.diverges,
                            !.follows = r.follows, !.sentinel = r.sentinel]
    ELSE LET r == WM_match(inst.wm, order, text)
         IN  [NoScan EXCEPT !.matches = r.matches, !.visits = r.visits]

\* a match that byte_pos_to_char_pos could not place: the decode raised
DecodeRaised(scan) == \E k \in 1..Len(scan.matches) : scan.matches[k][1] = -1

NoCall == [outcome |-> "none", input |-> [isStr |-> TRUE, val |-> <<>>],
           warned |-> FALSE, cands |-> <<>>, res |-> <<>>, scans |-> <<>>]

\* BaseAlgo.match on a non-empty str: every candidate of preprocess is
\* matched in turn
match_candidates(inst, input, order) ==
    LET cands == preprocess(inst, input.val, order)
        scans == [k \in 1..Len(cands) |-> match_one(inst, cands[k], order)]
        outcome == IF \E k \in 1..Len(scans) : scans[k].diverges THEN "diverges"
                   ELSE IF \E k \in 1..Len(scans) : DecodeRaised(scans[k])
                   THEN "UnicodeDecodeError"
                   ELSE "returned"
    IN  [NoCall EXCEPT !.outcome = outcome, !.input = input, !.cands = cands,
                       !.scans = scans,
                       !.res = IF outcome = "returned"
                               THEN [k \in 1..Len(scans) |-> scans[k].matches]
                               ELSE <<>>]

\* a variant of match: the empty text yields one empty MatchResult
match_empty_result(inst, input, order) ==
    IF ~input.isStr THEN [NoCall EXCEPT !.outcome = "TypeError", !.input = input]
    ELSE IF input.val = <<>>
    THEN [NoCall EXCEPT !.outcome = "returned", !.input = input, !.warned = TRUE,
                        !.res = <<(<<>>)>>]
    ELSE match_candidates(inst, input, order)

\* BaseAlgo.match: preprocess raises TypeError for an input that is no str,
\* warns and returns no candidate for the empty text, so that match returns
\* an empty list
match(inst, input, order) ==
    IF ~input.isStr THEN [NoCall EXCEPT !.outcome = "TypeError", !.input = input]
    ELSE IF input.val = <<>>
    THEN [NoCall EXCEPT !.outcome = "returned", !.input = input, !.warned = TRUE]
    ELSE match_candidates(inst, input, order)

\* a thread that is in no match call: pc is where the thread is (idle, in the
\* loop of BaseAlgo.match over the candidates, or done), next the index of
\* the candidate the loop matches next
NoRun == [pc |-> "idle", input |-> [isStr |-> TRUE, val |-> <<>>], outcome |-> "none",
          cands |-> <<>>, next |-> 0, res |-> <<>>]

\* two threads without an instance; made keeps each instance as its
\* constructor returned it
NoPair == [inst |-> <<NoInstance, NoInstance>>, made |-> <<NoInstance, NoInstance>>,
           run |-> <<NoRun, NoRun>>]

(***************************************************************************)
(* The inputs.                                                             *)
(***************************************************************************)
\* the patterns of the enumerated pattern lists: "", a, aa, U+4ED6, U+4EEC,
\* U+4ED6 a, U+4ED6 U+4EEC
PatternUniverse ==
    { <<>>, <<97>>, <<97, 97>>, <<20182>>, <<20204>>, <<20182, 97>>, <<20182, 20204>> }

\* the test case 0_zh and its text; the test case 0_en and its text; a
\* blocklist entry of two characters with a radical table entry and a
\* character with two readings
Scenario_zh == << <<20182>>, <<22905>>, <<20182, 30340>>, <<22905, 30340>> >>

Text_zh == <<20182, 21644, 22905, 30340>>

Scenario_en ==
    << <<108, 111, 110, 103, 108, 111>>,
       <<111, 110, 103, 119, 111, 114, 100>>,
       <<115, 104, 111, 114, 116, 119, 111, 114, 100>>,
       <<115, 104, 105, 110, 105, 110, 103, 119, 111, 114, 100>>,
       <<108, 111, 110, 103, 108, 111, 110, 103, 119, 111, 114, 100>> >>

Text_en == <<115, 104, 111, 114, 116, 119, 111, 114, 100, 108, 111, 110, 103,
             108, 111, 110, 103, 119, 111, 114, 100>>

PatternLists ==
    SeqsUpTo(PatternUniverse, MaxPatterns) \cup { Scenario_zh, Scenario_en }

\* the pattern lists the fuzzy flags are switched on for: their characters
\* have radical table entries and readings (U+5979 U+7684; U+4ED6 U+4EEC;
\* U+4ED6 U+5979 and "a"; U+4ED6 followed by its own decomposition U+4EBB
\* U+4E5F; the test case 0_zh)
FuzzyLists ==
    { << <<22905, 30340>> >>, << <<20182, 20204>> >>, << <<20182, 22905>>, <<97>> >>,
      << <<20182, 20155, 20063>> >>, Scenario_zh }

\* the arguments of a constructor call
ConstructorArgs ==
    { [patterns |-> p, enable_radical |-> FALSE, enable_pinyin |-> FALSE] :
        p \in PatternLists }
    \cup { [patterns |-> p, enable_radical |-> er, enable_pinyin |-> ep] :
             p \in FuzzyLists, er \in BOOLEAN, ep \in BOOLEAN }

\* the characters of the enumerated texts: a, U+4ED6, U+4EEC
TextAlphabet == { 97, 20182, 20204 }

\* texts that normalisation changes, that spell a pattern in radicals or in
\* pinyin: "A", "ta de", "tadi", U+5973 U+4E5F U+7684, U+4EBB U+4E5F U+4EEC;
\* texts that transliterate to upper case or to nothing: U+3400, U+0301; a
\* decomposition written twice: U+4EBB U+4E5F U+4EBB U+4E5F; readings spelled
\* with a space between the syllables: "ta di", "ta men", "ta ta"
ScenarioTexts ==
    { Text_zh, Text_en, <<65>>, <<116, 97, 32, 100, 101>>, <<116, 97, 100, 105>>,
      <<22899, 20063, 30340>>, <<20155, 20063, 20204>>, <<13312>>, <<769>>,
      <<20155, 20063, 20155, 20063>>,
      <<116, 97, 32, 100, 105>>, <<116, 97, 32, 109, 101, 110>>, <<116, 97, 32, 116, 97>> }

Texts == SeqsUpTo(TextAlphabet, MaxTextLen) \cup ScenarioTexts

\* what a caller may hand to match: a str, or a value that is no str
Inputs == { [isStr |-> TRUE, val |-> t] : t \in Texts } \cup { [isStr |-> FALSE, val |-> <<>>] }

BlockSizes == 1..MaxBlockSize

(***************************************************************************)
(* The state machine: a caller constructs a matcher, calls match on it any *)
(* number of times, and drops it.  On one instance the caller matches one  *)
(* text (again and again) and may call match with a value that is no str   *)
(* in between: a call reads the instance only, so a second text would      *)
(* start from the state the first one started from.                        *)
(***************************************************************************)
Init ==
    /\ m = NoInstance
    /\ out = NoCall
    /\ lastOk = NoCall
    /\ hashOrder \in BOOLEAN
    /\ threads = NoPair

ConstructBruteForce(patterns, enable_radical, enable_pinyin) ==
    /\ m.status = "none"
    /\ m' = BruteForce_init(patterns, enable_radical, enable_pinyin, hashOrder)
    /\ out' = NoCall
    /\ lastOk' = NoCall
    /\ UNCHANGED <<hashOrder, threads>>

ConstructNative(patterns, enable_radical, enable_pinyin) ==
    /\ m.status = "none"
    /\ m' = Native_init(patterns, enable_radical, enable_pinyin, hashOrder)
    /\ out' = NoCall
    /\ lastOk' = NoCall
    /\ UNCHANGED <<hashOrder, threads>>

ConstructAC(patterns, enable_radical, enable_pinyin) ==
    /\ m.status = "none"
    /\ m' = AC_init(patterns, enable_radical, enable_pinyin, hashOrder)
    /\ out' = NoCall
    /\ lastOk' = NoCall
    /\ UNCHANGED <<hashOrder, threads>>

ConstructWM(patterns, block_size, enable_radical, enable_pinyin) ==
    /\ m.status = "none"
    /\ m' = WM_init(patterns, block_size, enable_radical, enable_pinyin, hashOrder)
    /\ out' = NoCall
    /\ lastOk' = NoCall
    /\ UNCHANGED <<hashOrder, threads>>

\* a variant of Match: a call that raises TypeError is fatal for the
\* instance, which loses its trie, tables and maps and takes no further call
Match_type_error_resets(input) ==
    /\ m.status = "built"
    /\ lastOk.outcome = "none" \/ ~input.isStr \/ input = lastOk.input
    /\ out' = match(m, input, hashOrder)
    /\ lastOk' = IF out'.outcome = "returned" THEN out' ELSE lastOk
    /\ m' = IF out'.outcome = "TypeError"
            THEN [m EXCEPT !.status = "failed", !.error = "TypeError",
                           !.patterns = <<>>, !.nodes = <<>>, !.fail = EmptyDict,
                           !.wm = NoTables, !.pinyin_map = EmptyDict,
                           !.radical_map = EmptyDict]
            ELSE m
    /\ UNCHANGED <<hashOrder, threads>>

\* a variant of Match: a call that returns leaves an entry for the empty key
\* in the shift table and in the pinyin map (a lookup that inserts its default)
Match_inserts_default(input) ==
    /\ m.status = "built"
    /\ lastOk.outcome = "none" \/ ~input.isStr \/ input = lastOk.input
    /\ out' = match(m, input, hashOrder)
    /\ lastOk' = IF out'.outcome = "returned" THEN out' ELSE lastOk
    /\ m' = IF out'.outcome = "returned"
            THEN [m EXCEPT !.wm.shift = DictSet(m.wm.shift, <<>>, 0),
                           !.pinyin_map = DictSet(m.pinyin_map, <<>>, {})]
            ELSE m
    /\ UNCHANGED <<hashOrder, threads>>

\* instance.match(input): the call reads the instance and leaves it alone
Match(input) ==
    /\ m.status = "built"
    /\ lastOk.outcome = "none" \/ ~input.isStr \/ input = lastOk.input
    /\ out' = match(m, input, hashOrder)
    /\ lastOk' = IF out'.outcome = "returned" THEN out' ELSE lastOk
    /\ UNCHANGED <<m, hashOrder, threads>>

\* del instance (or the constructor raised and there is no instance)
Drop ==
    /\ m.status # "none"
    /\ m' = NoInstance
    /\ out' = NoCall
    /\ lastOk' = NoCall
    /\ UNCHANGED <<hashOrder, threads>>

\* instance.insert(pattern) after construction (AC and WM have the method);
\* one such call per instance is followed
Insert(pattern) ==
    /\ m.status = "built" /\ (m.kind = "AC" \/ m.kind = "WM")
    /\ m.inserts < MaxInserts
    /\ m' = insert(m, pattern, hashOrder)
    /\ out' = NoCall
    /\ lastOk' = NoCall
    /\ UNCHANGED <<hashOrder, threads>>

Next ==
    \/ \E a \in ConstructorArgs :
          \/ ConstructBruteForce(a.patterns, a.enable_radical, a.enable_pinyin)
          \/ ConstructNative(a.patterns, a.enable_radical, a.enable_pinyin)
          \/ ConstructAC(a.patterns, a.enable_radical, a.enable_pinyin)
          \/ \E block_size \in BlockSizes :
                ConstructWM(a.patterns, block_size, a.enable_radical, a.enable_pinyin)
    \/ \E input \in Inputs : Match(input)
    \/ Drop

Spec == Init /\ [][Next]_vars

\* the patterns handed to insert after construction: "a", U+4ED6 U+4EEC
InsertPatterns == { <<97>>, <<20182, 20204>> }

\* the constructor calls followed by a later insert
InsertArgs == { a \in ConstructorArgs : a.patterns \in FuzzyLists }

\* a caller that also calls insert on the AC or WM instance it holds
NextInsert ==
    \/ \E a \in InsertArgs :
          \/ ConstructAC(a.patterns, a.enable_radical, a.enable_pinyin)
          \/ \E block_size \in BlockSizes :
                ConstructWM(a.patterns, block_size, a.enable_radical, a.enable_pinyin)
    \/ \E pattern \in InsertPatterns : Insert(pattern)
    \/ \E input \in Inputs : Match(input)
    \/ Drop

SpecInsert == Init /\ [][NextInsert]_vars

(***************************************************************************)
(* Two threads of one process, each with a matcher instance of its own.    *)
(* A match call is taken apart into its steps: the call of preprocess, and *)
(* one step for every candidate the loop of BaseAlgo.match hands to        *)
(* _match.  The steps of the two threads interleave in every order.  A     *)
(* step reads the thread's own instance, the module's tokenizer and        *)
(* RADICAL_MAP (which no step writes), and appends to the thread's own     *)
(* result list.                                                            *)
(***************************************************************************)
\* the constructor calls of the two threads
PairArgs ==
    { [kind |-> "BruteForce", patterns |-> << <<22905, 30340>> >>, pinyin |-> TRUE],
      [kind |-> "Native", patterns |-> << <<97, 97>> >>, pinyin |-> FALSE],
      [kind |-> "AC", patterns |-> Scenario_zh, pinyin |-> TRUE],
      [kind |-> "WM", patterns |-> << <<20182, 20204>> >>, pinyin |-> TRUE] }

\* the texts of the two threads: "ta de", "aaa", the test case 0_zh, and a value
\* that is no str
PairInputs ==
    { [isStr |-> TRUE, val |-> <<116, 97, 32, 100, 101>>],
      [isStr |-> TRUE, val |-> <<97, 97, 97>>],
      [isStr |-> TRUE, val |-> Text_zh],
      [isStr |-> FALSE, val |-> <<>>] }

\* the constructor of a class
Construct(a, order) ==
    IF a.kind = "BruteForce" THEN BruteForce_init(a.patterns, FALSE, a.pinyin, order)
    ELSE IF a.kind = "Native" THEN Native_init(a.patterns, FALSE, a.pinyin, order)
    ELSE IF a.kind = "AC" THEN AC_init(a.patterns, FALSE, a.pinyin, order)
    ELSE WM_init(a.patterns, 2, FALSE, a.pinyin, order)

InitPair ==
    /\ m = NoInstance
    /\ out = NoCall
    /\ lastOk = NoCall
    /\ hashOrder \in BOOLEAN
    /\ threads = NoPair

\* thread i constructs its instance
PairConstruct(i, a) ==
    /\ threads.inst[i].status = "none"
    /\ threads' = [threads EXCEPT !.inst[i] = Construct(a, hashOrder),
                            !.made[i] = Construct(a, hashOrder)]
    /\ UNCHANGED <<m, out, lastOk, hashOrder>>

\* thread i calls match: the call of preprocess, which raises, or warns and
\* returns nothing, or returns the candidates
PairBegin(i, input) ==
    /\ threads.inst[i].status = "built"
    /\ threads.run[i].pc = "idle"
    /\ threads' = [threads EXCEPT !.run[i] =
          IF ~input.isStr
          THEN [NoRun EXCEPT !.pc = "done", !.input = input, !.outcome = "TypeError"]
          ELSE IF input.val = <<>>
          THEN [NoRun EXCEPT !.pc = "done", !.input = input, !.outcome = "returned"]
          ELSE [NoRun EXCEPT !.pc = "loop", !.input = input, !.next = 1,
                             !.cands = preprocess(threads.inst[i], input.val, hashOrder)]]
    /\ UNCHANGED <<m, out, lastOk, hashOrder>>

\* a variant of PairStep: the result list is shared by the instances (an
\* attribute of the class), so a step appends to the list of both threads
PairStep_shared_result(i) ==
    /\ threads.run[i].pc = "loop"
    /\ LET run == threads.run[i]
           scan == match_one(threads.inst[i], run.cands[run.next], hashOrder)
           last == run.next = Len(run.cands)
       IN  threads' = [threads EXCEPT
              !.run[i] = [run EXCEPT !.res = Append(@, scan.matches),
                                     !.next = @ + 1,
                                     !.pc = IF last THEN "done" ELSE "loop",
                                     !.outcome = IF last THEN "returned" ELSE "none"],
              !.run[3 - i].res = IF threads.run[3 - i].pc = "loop"
                                 THEN Append(@, scan.matches) ELSE @]
    /\ UNCHANGED <<m, out, lastOk, hashOrder>>

\* thread i, one iteration of the loop of BaseAlgo.match: _match of the next
\* candidate is appended to the call's result; after the last candidate the
\* call returns
PairStep(i) ==
    /\ threads.run[i].pc = "loop"
    /\ LET run == threads.run[i]
           scan == match_one(threads.inst[i], run.cands[run.next], hashOrder)
           last == run.next = Len(run.cands)
       IN  threads' = [threads EXCEPT
              !.run[i] = [run EXCEPT !.res = Append(@, scan.matches),
                                     !.next = @ + 1,
                                     !.pc = IF last THEN "done" ELSE "loop",
                                     !.outcome = IF last THEN "returned" ELSE "none"]]
    /\ UNCHANGED <<m, out, lastOk, hashOrder>>

\* thread i is back from its call and may call again
PairReturn(i) ==
    /\ threads.run[i].pc = "done"
    /\ threads.run[3 - i].pc # "idle"
    /\ threads' = [threads EXCEPT !.run[i] = NoRun]
    /\ UNCHANGED <<m, out, lastOk, hashOrder>>

NextPair ==
    \E i \in 1..2 :
       \/ \E a \in PairArgs : PairConstruct(i, a)
       \/ \E input \in PairInputs : PairBegin(i, input)
       \/ PairStep(i)
       \/ PairReturn(i)

SpecPair == InitPair /\ [][NextPair]_vars

(***************************************************************************)
(* What the properties are stated with.                                    *)
(***************************************************************************)
\* the character indices at which pattern p occurs in text
Occurrences(p, text) ==
    { i \in 0..(Len(text) - Len(p)) : Slice(text, i, i + Len(p)) = p }

\* every (character offset, pattern) pair of an occurrence of a listed pattern
AllOccurrences(patterns, text) ==
    { <<i, patterns[k]>> : k \in 1..Len(patterns), i \in 0..Len(text) } \cap
    { pr \in (0..Len(text)) \X AsSet(patterns) : pr[1] \in Occurrences(pr[2], text) }

NonEmptyPatterns(patterns) == \A k \in 1..Len(patterns) : patterns[k] # <<>>

\* the call returned on a str with at least one candidate
Returned == out.outcome = "returned" /\ out.cands # <<>>

\* the byte offset of character index i of text
ByteOffset(text, i) == Len(Encode(Slice(text, 0, i)))

(***************************************************************************)
(* C1  With both flags off, and a non-empty list of non-empty patterns     *)
(* that WM accepts too, the result of every matcher for a text is, as a    *)
(* set, the result of BruteForce for it (so all four agree).  This is the  *)
(* claim as it stands; Native breaks it.                                   *)
(***************************************************************************)
C1_AllFourAgree ==
    (/\ Returned
     /\ ~m.ENABLE_RADICAL /\ ~m.ENABLE_PINYIN
     /\ m.given # <<>> /\ NonEmptyPatterns(m.given)
     /\ ~WM_rejects(WM_min_ptn_len(m.given), IF m.kind = "WM" THEN m.wm.block_size ELSE 1))
    => AsSet(out.res[1]) = AsSet(BruteForce_match(m.given, out.cands[1]))

(***************************************************************************)
(* C2  For a list of non-empty patterns, an AC match call on a str returns,*)
(* and the result for every candidate text is exactly the set of pairs     *)
(* (i, p) with p in the list and p occurring at character i.               *)
(***************************************************************************)
C2_ACExact ==
    (m.kind = "AC" /\ NonEmptyPatterns(m.given) /\ out.outcome # "none" /\ out.input.isStr)
    => /\ out.outcome = "returned"
       /\ \A k \in 1..Len(out.cands) :
            AsSet(out.res[k]) = AllOccurrences(m.given, out.cands[k])

\* the test case 0_zh: a pattern that is a prefix of another, both reported
C2_Witness ==
    /\ m.kind = "AC" /\ m.given = Scenario_zh
    /\ Returned /\ out.cands[1] = Text_zh
    /\ AsSet(out.res[1]) = { <<0, <<20182>>>>, <<2, <<22905>>>>, <<2, <<22905, 30340>>>> }

(***************************************************************************)
(* C3  The WM scan skips no occurrence: for every pattern whose bytes      *)
(* occur in the text's bytes from byte s on, the scan visits end position  *)
(* s + min_ptn_len - 1 with shift 0 and reports the occurrence, and no     *)
(* nonzero shift starts at or jumps over such an end position.             *)
(***************************************************************************)
C3_WMNoSkip ==
    (m.kind = "WM" /\ Returned)
    => \A k \in 1..Len(out.cands) :
         LET text == out.cands[k]
             visits == AsSet(out.scans[k].visits)
         IN  \A j \in 1..Len(m.given) : \A i \in Occurrences(m.given[j], text) :
               LET q == ByteOffset(text, i) + m.wm.min_ptn_len - 1
               IN  /\ <<q, 0>> \in visits
                   /\ <<i, m.given[j]>> \in AsSet(out.res[k])
                   /\ \A v \in visits : v[2] # 0 => ~(v[1] <= q /\ q < v[1] + v[2])

\* a shift of two or more (here the default of a block in no pattern) is
\* taken and an occurrence that ends after it is still found
C3_Witness ==
    /\ m.kind = "WM" /\ Returned
    /\ \E v \in AsSet(out.scans[1].visits) :
         /\ v[2] >= 2
         /\ Slice(Encode(out.cands[1]), v[1] - m.wm.block_size + 1, v[1] + 1)
              \notin DOMAIN m.wm.shift
         /\ \E pr \in AsSet(out.res[1]) :
              ByteOffset(out.cands[1], pr[1]) + m.wm.min_ptn_len - 1 = v[1] + v[2]

(***************************************************************************)
(* C4  Native records every character index at which a listed pattern      *)
(* occurs, occurrences that overlap an earlier one of the same pattern     *)
(* included.  This is the claim as it stands; the code resumes its search  *)
(* after the end of a match.                                               *)
(***************************************************************************)
C4_NativeAllOccurrences ==
    (m.kind = "Native" /\ Returned)
    => \A k \in 1..Len(out.cands) :
         AllOccurrences(m.given, out.cands[k]) \subseteq AsSet(out.res[k])

(***************************************************************************)
(* C5  For every occurrence of a listed pattern p at character index i of  *)
(* a text that AC or WM scanned, byte_pos_to_char_pos of the offset of the *)
(* occurrence's last byte returns i, and the start byte offset it computes *)
(* is a codepoint boundary (the end of the bytes or no continuation byte). *)
(***************************************************************************)
C5_BytePosToCharPos ==
    ((m.kind = "AC" \/ m.kind = "WM") /\ Returned)
    => \A k \in 1..Len(out.cands) : \A j \in 1..Len(m.given) :
         \A i \in Occurrences(m.given[j], out.cands[k]) :
           LET text_bytes == Encode(out.cands[k])
               pattern_bytes == Encode(m.given[j])
               start_pos == ByteOffset(out.cands[k], i)
               end_pos == start_pos + Len(pattern_bytes) - 1
           IN  /\ byte_pos_to_char_pos(end_pos, text_bytes, pattern_bytes) = i
               /\ start_pos = Len(text_bytes) \/ ~IsCont(At(text_bytes, start_pos))

\* a match behind multi-byte characters: the byte offset and the character
\* offset of its start differ
C5_Witness ==
    /\ (m.kind = "AC" \/ m.kind = "WM") /\ Returned
    /\ \E pr \in AsSet(out.res[1]) :
         pr[1] > 0 /\ ByteOffset(out.cands[1], pr[1]) > pr[1]

(***************************************************************************)
(* C6  The claim as it stands: on a matcher built from a non-empty pattern *)
(* list, match("") raises nothing, warns and returns a sequence of exactly *)
(* one MatchResult, which is empty.                                        *)
(***************************************************************************)
EmptyTextCall ==
    /\ m.status = "built" /\ m.given # <<>>
    /\ out.outcome # "none" /\ out.input.isStr /\ out.input.val = <<>>

C7_RejectsEmpty ==
    (m.status # "none" /\ (m.given = <<>> \/ ~NonEmptyPatterns(m.given)))
    => m.status = "failed" /\ m.error # "none"

(***************************************************************************)
(* C8  WM construction of a non-empty pattern list raises exactly when the *)
(* least UTF-8 byte length of a pattern is below block_size, and it raises *)
(* before the shift, hash and prefix tables have an entry; with            *)
(* block_size <= min_ptn_len the matcher is built.                         *)
(***************************************************************************)
C8_WMBlockSize ==
    (m.kind = "WM" /\ m.given # <<>>)
    => /\ m.wm.min_ptn_len = MinOf({ Len(Encode(m.given[k])) : k \in 1..Len(m.given) })
       /\ m.wm.min_ptn_len < m.wm.block_size
            => /\ m.status = "failed" /\ m.error = "ValueError"
               /\ DOMAIN m.wm.shift = {} /\ DOMAIN m.wm.hash = {}
               /\ DOMAIN m.wm.prefix = {}
       /\ m.wm.block_size <= m.wm.min_ptn_len => m.status = "built"

\* block_size 3 and a pattern of two bytes: the constructor raised
C8_Witness ==
    /\ m.kind = "WM" /\ m.status = "failed" /\ m.error = "ValueError"
    /\ m.wm.block_size = 3 /\ m.wm.min_ptn_len = 2

(***************************************************************************)
(* C9  A match call with a value that is no str raises TypeError for that  *)
(* call only: the step leaves the instance (status, trie, tables, maps) as *)
(* it was, and the next call on a str that was matched before the failed   *)
(* call returns the candidates and results it returned then.               *)
(***************************************************************************)
C9_FailedCallStep ==
    /\ (m.status = "built" /\ out'.outcome = "TypeError")
         => /\ ~out'.input.isStr
            /\ m' = m
            /\ lastOk' = lastOk
    /\ (/\ out.outcome = "TypeError" /\ lastOk.outcome = "returned"
        /\ out'.outcome = "returned" /\ out'.input = lastOk.input)
         => out'.cands = lastOk.cands /\ out'.res = lastOk.res

OnePerCandidate ==
    /\ Len(out.res) = Len(out.cands)
    /\ \A k \in 1..Len(out.cands) :
         out.res[k] = match_one(m, out.cands[k], hashOrder).matches

OriginalFirst ==
    /\ Len(out.res) >= 1
    /\ out.cands[1] = Normalize(out.input.val)
    /\ out.res[1] = match_one(m, Normalize(out.input.val), hashOrder).matches

IndexStructures(inst) ==
    <<inst.nodes, inst.fail, inst.wm, inst.pinyin_map, inst.radical_map, inst.patterns>>

C11_MatchStep ==
    (m.status = "built" /\ m'.status = "built")
    => IndexStructures(m') = IndexStructures(m)

C12_InsertRejected ==
    (m.status = "built" /\ (m.kind = "AC" \/ m.kind = "WM"))
    => /\ m.inserts = 0
       /\ m.kind = "AC" =>
            LET built == AC_build(m.given)
            IN  m.nodes = built.nodes /\ m.fail = built.fail
       /\ m.kind = "WM" =>
            m.wm = WM_insert_all(WM_empty(m.wm.min_ptn_len, m.wm.block_size), m.given)


(***************************************************************************)
(* C13  The claim as it stands: on an instance a constructor returned,     *)
(* every match call on a str terminates.  Native with an empty pattern     *)
(* never leaves its while loop on a non-empty text.                        *)
(***************************************************************************)
C13_MatchTerminates ==
    (m.status = "built" /\ out.outcome # "none" /\ out.input.isStr)
    => /\ out.outcome # "diverges"
       /\ \A k \in 1..Len(out.scans) : ~out.scans[k].diverges


OtherOrderMaps(inst) ==
    insert_maps([inst EXCEPT !.pinyin_map = EmptyDict, !.radical_map = EmptyDict],
                inst.given, ~hashOrder)

ResultCollection(res) == { AsSet(res[k]) : k \in 1..Len(res) }

C15_SameMaps ==
    m.status = "built"
    => LET other == OtherOrderMaps(m)
       IN  other.pinyin_map = m.pinyin_map /\ other.radical_map = m.radical_map

C15_SameResults ==
    (m.status = "built" /\ out.outcome = "returned")
    => LET call == match(OtherOrderMaps(m), out.input, ~hashOrder)
       IN  /\ call.outcome = "returned"
           /\ ResultCollection(call.res) = ResultCollection(out.res)

C15_FuzzyDeterministic == C15_SameMaps /\ C15_SameResults


(***************************************************************************)
(* C16  The claim as it stands: normalisation is idempotent.  For every    *)
(* non-empty text on which match returns, preprocess of the first          *)
(* candidate has a first element, and it is that candidate again.          *)
(***************************************************************************)
C16_NormalizeIdempotent ==
    Returned
    => /\ out.cands[1] # <<>>
       /\ preprocess(m, out.cands[1], hashOrder)[1] = out.cands[1]


(***************************************************************************)
(* C17  The claim as it stands: with enable_radical set, for a listed      *)
(* pattern P with a character c that the table decomposes into k, a text   *)
(* that is P with k written in place of c has a candidate that contains P, *)
(* and the MatchResult of that candidate reports P.                        *)
(***************************************************************************)
\* P with one of its characters replaced by one of its decompositions
RadicalSpellings(P) ==
    UNION { { Slice(P, 0, j) \o RADICAL_MAP[At(P, j)][n] \o Slice(P, j + 1, Len(P)) :
                n \in 1..Len(RADICAL_MAP[At(P, j)]) } :
            j \in { i \in 0..(Len(P) - 1) : At(P, i) \in DOMAIN RADICAL_MAP } }

\* some candidate contains P and its MatchResult reports P
FoundInCandidate(P) ==
    \E k \in 1..Len(out.cands) :
       \E i \in Occurrences(P, out.cands[k]) : <<i, P>> \in AsSet(out.res[k])

C17_RadicalRoundTrip ==
    (Returned /\ m.ENABLE_RADICAL)
    => \A j \in 1..Len(m.given) :
         out.input.val \in RadicalSpellings(m.given[j]) => FoundInCandidate(m.given[j])


(***************************************************************************)
(* C18  With enable_pinyin set, for a listed pattern P of two or more      *)
(* Chinese characters and every reading of P (one syllable per character,  *)
(* any of the character's readings), the text that spells the reading with *)
(* a space between the syllables has a rewritten candidate that contains   *)
(* P, and the MatchResult of that candidate reports P.                     *)
(***************************************************************************)
RECURSIVE SpaceJoin(_)
\* " ".join(syllables)
SpaceJoin(syllables) ==
    IF Len(syllables) <= 1 THEN Concat(syllables)
    ELSE Head(syllables) \o <<32>> \o SpaceJoin(Tail(syllables))

\* the readings of P: one syllable per character
ReadingsOf(P) == Product([k \in 1..Len(P) |-> Readings(P[k])])

ChinesePattern(P) == Len(P) >= 2 /\ \A k \in 1..Len(P) : IsChinesePattern(P[k])

\* some rewritten candidate contains P and its MatchResult reports P
FoundInRewrite(P) ==
    \E k \in 2..Len(out.cands) :
       \E i \in Occurrences(P, out.cands[k]) : <<i, P>> \in AsSet(out.res[k])

C18_PinyinRoundTrip ==
    (Returned /\ m.ENABLE_PINYIN)
    => \A j \in 1..Len(m.given) :
         ChinesePattern(m.given[j]) =>
           \A r \in ReadingsOf(m.given[j]) :
             out.input.val = SpaceJoin(r) => FoundInRewrite(m.given[j])

\* "ta di", the second reading of U+7684, against a list with U+5979 U+7684
C18_Witness ==
    /\ Returned /\ m.ENABLE_PINYIN
    /\ out.input.val = <<116, 97, 32, 100, 105>>
    /\ \E j \in 1..Len(m.given) :
         /\ m.given[j] = <<22905, 30340>>
         /\ out.input.val \in { SpaceJoin(r) : r \in ReadingsOf(m.given[j]) }
         /\ FoundInRewrite(m.given[j])


RECURSIVE WithoutDuplicates(_)
\* the list with the later copies of every element left out
WithoutDuplicates(s) ==
    IF s = <<>>
    THEN <<>>
    ELSE LET front == WithoutDuplicates(SubSeq(s, 1, Len(s) - 1))
         IN  IF \E j \in 1..Len(front) : front[j] = s[Len(s)]
             THEN front
             ELSE Append(front, s[Len(s)])

\* the matcher of the class and the flags of m for another pattern list
SameClassFor(patterns) ==
    IF m.kind = "BruteForce"
    THEN BruteForce_init(patterns, m.ENABLE_RADICAL, m.ENABLE_PINYIN, hashOrder)
    ELSE IF m.kind = "Native"
    THEN Native_init(patterns, m.ENABLE_RADICAL, m.ENABLE_PINYIN, hashOrder)
    ELSE IF m.kind = "AC"
    THEN AC_init(patterns, m.ENABLE_RADICAL, m.ENABLE_PINYIN, hashOrder)
    ELSE WM_init(patterns, m.wm.block_size, m.ENABLE_RADICAL, m.ENABLE_PINYIN,
                 hashOrder)

\* a pair occurs once in every MatchResult of the call
PairsOnce == \A k \in 1..Len(out.res) : Cardinality(AsSet(out.res[k])) = Len(out.res[k])

\* the call gives what the list without the duplicates gives
AsWithoutDuplicates ==
    match(SameClassFor(WithoutDuplicates(m.given)), out.input, hashOrder).res = out.res

C20_NoDuplicatePairs ==
    (Returned /\ NonEmptyPatterns(m.given)) => (PairsOnce /\ AsWithoutDuplicates)



(***************************************************************************)
(* C21  After AC construction the fail pointer of every node but the root  *)
(* is the node of the longest proper suffix of the node's byte path that   *)
(* is a path of the trie (a prefix of a pattern), the root when only the   *)
(* empty suffix is one; the root's fail pointer is the root.               *)
(***************************************************************************)
RECURSIVE NodePath(_, _)
\* the bytes that lead from the root to node idx
NodePath(nodes, idx) ==
    IF idx = 0 THEN <<>>
    ELSE LET parent == CHOOSE p \in 0..(Len(nodes) - 1) :
                          \E k \in 1..Len(nodes[p + 1].children) :
                             nodes[p + 1].children[k][2] = idx
             items == nodes[parent + 1].children
             k == CHOOSE j \in 1..Len(items) : items[j][2] = idx
         IN  Append(NodePath(nodes, parent), items[k][1])

RECURSIVE NodeOfPath(_, _, _)
\* the node the bytes lead to from node idx, -1 when the trie has no such path
NodeOfPath(nodes, idx, bytes) ==
    IF bytes = <<>> THEN idx
    ELSE LET child == ChildGet(nodes[idx + 1], Head(bytes))
         IN  IF child = -1 THEN -1 ELSE NodeOfPath(nodes, child, Tail(bytes))

\* the node of the longest proper suffix of a path that is a path of the trie
LongestSuffixNode(nodes, path) ==
    LET lens == { k \in 0..(Len(path) - 1) :
                    NodeOfPath(nodes, 0, SubSeq(path, Len(path) - k + 1, Len(path))) # -1 }
        best == CHOOSE k \in lens : \A j \in lens : j <= k
    IN  NodeOfPath(nodes, 0, SubSeq(path, Len(path) - best + 1, Len(path)))

BuiltAC == m.status = "built" /\ m.kind = "AC"

C21_FailIsLongestSuffix ==
    BuiltAC =>
       /\ DictGet(m.fail, 0, -1) = 0
       /\ \A idx \in 1..(Len(m.nodes) - 1) :
             DictGet(m.fail, idx, -1) = LongestSuffixNode(m.nodes, NodePath(m.nodes, idx))

\* a node whose fail pointer is reached only by walking up more than one fail
\* pointer: its parent's fail node has no child on the node's byte
C21_Witness ==
    /\ BuiltAC
    /\ \E idx \in 1..(Len(m.nodes) - 1) :
          LET path == NodePath(m.nodes, idx)
              parent == NodeOfPath(m.nodes, 0, SubSeq(path, 1, Len(path) - 1))
          IN  /\ parent # 0
              /\ m.fail[parent] # 0
              /\ ChildGet(NodeAt(m.nodes, m.fail[parent]), path[Len(path)]) = -1
              /\ m.fail[idx] # 0



(***************************************************************************)
(* C22  After AC construction the pattern list of every node holds exactly *)
(* the listed patterns whose bytes are a suffix of the node's byte path    *)
(* (its own and those copied along the fail pointers); the root, which is  *)
(* no node's child, is copied nothing and holds what was inserted at it.   *)
(***************************************************************************)
\* bytes end the path
IsSuffix(bytes, path) ==
    /\ Len(bytes) <= Len(path)
    /\ SubSeq(path, Len(path) - Len(bytes) + 1, Len(path)) = bytes

\* the listed patterns that end a path
SuffixPatterns(patterns, path) ==
    { p \in AsSet(patterns) : IsSuffix(Encode(p), path) }

C22_NodePatterns ==
    BuiltAC =>
       \A idx \in 0..(Len(m.nodes) - 1) :
          AsSet(NodeAt(m.nodes, idx).patterns)
             = SuffixPatterns(m.given, NodePath(m.nodes, idx))



(***************************************************************************)
(* C23  In one AC scan of a text of n bytes the number of fail pointers    *)
(* followed, over the whole scan, is at most n.                            *)
(***************************************************************************)
C23_FollowsAtMostBytes ==
    (m.kind = "AC" /\ Returned)
    => \A k \in 1..Len(out.cands) :
          out.scans[k].follows <= Len(Encode(out.cands[k]))

\* a scan that follows fail pointers at two or more bytes of the text and
\* reports a match
C23_Witness ==
    /\ m.kind = "AC" /\ Returned
    /\ out.scans[1].follows >= 2
    /\ out.res[1] # <<>>



(***************************************************************************)
(* C24  After WM construction the shift table has an entry for every block *)
(* at a position within the first min_ptn_len bytes of a listed pattern    *)
(* and for no other block, the entry being the least distance, over the    *)
(* patterns and positions the block is found at, from the end of the block *)
(* to the end of the pattern; a further insert never raises an entry.      *)
(* This is the claim as it stands.  The code measures the distance to the  *)
(* end of the first min_ptn_len bytes, which is what C24_ShiftToWindowEnd  *)
(* states.                                                                 *)
(***************************************************************************)
BuiltWM == m.status = "built" /\ m.kind = "WM"

\* where block b is found: (pattern, position) with the block at the position
\* inside the first min_ptn_len bytes
BlockPlaces(patterns, t, b) ==
    { pi \in AsSet(patterns) \X (0..(t.min_ptn_len - t.block_size)) :
        Slice(Encode(pi[1]), pi[2], pi[2] + t.block_size) = b }

\* every block found at such a position
ShiftBlocks(patterns, t) ==
    { Slice(Encode(p), i, i + t.block_size) :
        p \in AsSet(patterns), i \in 0..(t.min_ptn_len - t.block_size) }

\* the tables after the first k patterns of the list are inserted
TablesAfter(k) ==
    WM_insert_all(WM_empty(m.wm.min_ptn_len, m.wm.block_size), SubSeq(m.given, 1, k))

\* no insert of the constructor raises an entry of the shift table
InsertNeverRaises ==
    \A k \in 1..Len(m.given) :
       \A b \in DOMAIN TablesAfter(k - 1).shift :
          /\ b \in DOMAIN TablesAfter(k).shift
          /\ TablesAfter(k).shift[b] <= TablesAfter(k - 1).shift[b]

C25_ReportedPairsOccur ==
    /\ Returned =>
          \A k \in 1..Len(out.res) : \A j \in 1..Len(out.res[k]) :
             LET o == out.res[k][j][1]
                 p == out.res[k][j][2]
             IN  /\ p \in AsSet(m.given)
                 /\ o >= 0
                 /\ o + Len(p) <= Len(out.cands[k])
                 /\ Slice(out.cands[k], o, o + Len(p)) = p
    /\ (m.kind = "WM" /\ out.outcome # "none" /\ out.input.isStr)
          => out.outcome = "returned"

\* the patterns WM._match compares at end position end_pos of the text
PotentialMatches(t, text_bytes, end_pos) ==
    DictGet(t.hash, Slice(text_bytes, end_pos - t.block_size + 1, end_pos + 1), {})
    \cap DictGet(t.prefix, Slice(text_bytes, end_pos - t.min_ptn_len + 1,
                                 end_pos - t.min_ptn_len + 1 + t.block_size), {})

\* a WM scan compares a candidate of the block intersection whose bytes
\* differ from the text, and reports another one at the same position
C25_Witness ==
    /\ m.kind = "WM" /\ Returned
    /\ \E v \in AsSet(out.scans[1].visits) :
          /\ v[2] = 0
          /\ LET text_bytes == Encode(out.cands[1])
                 start_pos == v[1] - m.wm.min_ptn_len + 1
             IN  /\ \E p \in PotentialMatches(m.wm, text_bytes, v[1]) :
                       Slice(text_bytes, start_pos, start_pos + Len(Encode(p))) # Encode(p)
                 /\ \E p \in PotentialMatches(m.wm, text_bytes, v[1]) :
                       Slice(text_bytes, start_pos, start_pos + Len(Encode(p))) = Encode(p)
    /\ out.res[1] # <<>>



(***************************************************************************)
(* C26  Every radical rewrite of preprocess differs from the normalised    *)
(* text in one place: one occurrence of a key of the radical map (two      *)
(* characters or more) is replaced by one of the key's characters, and     *)
(* every other position is as in the text, other occurrences of the same   *)
(* key included.  This is the claim as it stands; str.replace rewrites     *)
(* every occurrence.                                                       *)
(***************************************************************************)
\* cand is text with one occurrence of one key replaced
SingleRewrite(radical_map, text, cand) ==
    \E i \in 0..(Len(text) - 2) : \E j \in (i + 2)..Len(text) :
       /\ Slice(text, i, j) \in DOMAIN radical_map
       /\ \E character \in radical_map[Slice(text, i, j)] :
             cand = Slice(text, 0, i) \o character \o Slice(text, j, Len(text))

\* the radical rewrites of the call
RadicalRewrites ==
    IF m.ENABLE_RADICAL /\ DOMAIN m.radical_map # {}
    THEN RadicalCandidates(m.radical_map, out.cands[1], hashOrder)
    ELSE <<>>

C26_RadicalRewritesOnePlace ==
    Returned =>
       \A k \in 1..Len(RadicalRewrites) :
          /\ out.cands[k + 1] = RadicalRewrites[k]
          /\ SingleRewrite(m.radical_map, out.cands[1], RadicalRewrites[k])



(***************************************************************************)
(* C27  After construction with enable_pinyin set, every member of every   *)
(* value of the pinyin map is a pattern of the list the constructor was    *)
(* given.  This is the claim as it stands; the code stores the sub-strings *)
(* of the patterns' Chinese characters.                                    *)
(***************************************************************************)
BuiltWithPinyin == m.status = "built" /\ m.ENABLE_PINYIN

C27_PinyinValuesArePatterns ==
    BuiltWithPinyin =>
       \A key \in DOMAIN m.pinyin_map : \A value \in m.pinyin_map[key] :
          value \in AsSet(m.given)



(***************************************************************************)
(* C28  _insert_pinyin only accumulates: every key the map had before the  *)
(* call keeps at least the members it had, and after the call, for every   *)
(* reading r of the pattern's Chinese characters P and all i < j, the key  *)
(* r[i:j] holds P[i:j], homophones inside one pattern included.  This is   *)
(* the claim as it stands; two sub-strings of one pattern with the same    *)
(* syllables leave only one of them in the map.                            *)
(***************************************************************************)
\* the pinyin map after the constructor has inserted the first k patterns
PinyinMapAfter(k) ==
    insert_maps([ENABLE_RADICAL |-> FALSE, ENABLE_PINYIN |-> TRUE,
                 pinyin_map |-> EmptyDict, radical_map |-> EmptyDict],
                SubSeq(m.given, 1, k), hashOrder).pinyin_map

\* the call for pattern k keeps what the keys held
KeepsMembers(k) ==
    \A key \in DOMAIN PinyinMapAfter(k - 1) :
       /\ key \in DOMAIN PinyinMapAfter(k)
       /\ PinyinMapAfter(k - 1)[key] \subseteq PinyinMapAfter(k)[key]

\* after the call for pattern k every run of syllables of every reading holds
\* the sub-string it reads
HoldsEveryReading(k) ==
    LET P == OnlyChinese(m.given[k])
    IN  \A r \in ReadingsOf(P) : \A i \in 0..(Len(P) - 1) : \A j \in (i + 1)..Len(P) :
           /\ Slice(r, i, j) \in DOMAIN PinyinMapAfter(k)
           /\ Slice(P, i, j) \in PinyinMapAfter(k)[Slice(r, i, j)]

C28_PinyinInsertAccumulates ==
    BuiltWithPinyin =>
       /\ PinyinMapAfter(Len(m.given)) = m.pinyin_map
       /\ \A k \in 1..Len(m.given) : KeepsMembers(k) /\ HoldsEveryReading(k)



(***************************************************************************)
(* C29  After AC construction the fail table has an entry for every node   *)
(* index and for nothing else, every entry is a node index, the fail node  *)
(* of a node other than the root is less deep than the node, and a scan of *)
(* the instance returns without reading the default -1 as a node index.    *)
(***************************************************************************)
C29_FailTableTotal ==
    /\ BuiltAC =>
          /\ DOMAIN m.fail = 0..(Len(m.nodes) - 1)
          /\ \A idx \in DOMAIN m.fail :
                /\ m.fail[idx] \in 0..(Len(m.nodes) - 1)
                /\ idx # 0 => Len(NodePath(m.nodes, m.fail[idx]))
                                 < Len(NodePath(m.nodes, idx))
    /\ (m.kind = "AC" /\ out.outcome # "none" /\ out.input.isStr) =>
          /\ out.outcome = "returned"
          /\ \A k \in 1..Len(out.scans) : ~out.scans[k].sentinel

\* a scan that follows a fail pointer to a node other than the root
C29_Witness ==
    /\ m.kind = "AC" /\ Returned
    /\ out.scans[1].follows >= 1
    /\ \E idx \in DOMAIN m.fail :
          /\ m.fail[idx] # 0
          /\ NodePath(m.nodes, idx) \in
                { Slice(Encode(out.cands[1]), i, j) :
                    i \in 0..Len(Encode(out.cands[1])), j \in 0..Len(Encode(out.cands[1])) }
          /\ \E b \in 0..255 :
                /\ ChildGet(NodeAt(m.nodes, idx), b) = -1
                /\ Append(NodePath(m.nodes, idx), b) \in
                      { Slice(Encode(out.cands[1]), i, j) :
                          i \in 0..Len(Encode(out.cands[1])),
                          j \in 0..Len(Encode(out.cands[1])) }



(***************************************************************************)
(* C30  With enable_radical and enable_pinyin both false, for each of the  *)
(* four classes, no map is built (the insertions AC.insert and WM.insert   *)
(* call return at once), and a match call on a non-empty text has one      *)
(* candidate, the normalised text, and returns one MatchResult.  This is   *)
(* the claim as it stands; with the empty pattern in its list Native does  *)
(* not return.                                                             *)
(***************************************************************************)
FlagsOff == m.status = "built" /\ ~m.ENABLE_RADICAL /\ ~m.ENABLE_PINYIN

C30_FlagsOffOneCandidate ==
    FlagsOff =>
       /\ m.pinyin_map = EmptyDict /\ m.radical_map = EmptyDict
       /\ (out.outcome # "none" /\ out.input.isStr /\ out.input.val # <<>>) =>
             /\ out.cands = <<Normalize(out.input.val)>>
             /\ out.outcome = "returned"
             /\ Len(out.res) = 1

====
